---- MODULE Spec2Model ----
(***************************************************************************)
(* Model of domaindetect.py: the find_url pipeline                         *)
(*   clean_query -> google_search -> exclude_unwanted_domains ->           *)
(*   extract_domains -> find_best_match -> validate_html_title.            *)
(* Strings are sequences of one-character strings, so that the regular     *)
(* expressions of the source are evaluated character by character.         *)
(***************************************************************************)
EXTENDS Integers, Sequences, FiniteSets, TLC

\* Largest number of URLs the search provider yields in one call.
MaxResults == 2

----------------------------------------------------------------------------
\* Characters

LowerLetters ==
    <<"a", "b", "c", "d", "e", "f", "g", "h", "i", "j", "k", "l", "m",
      "n", "o", "p", "q", "r", "s", "t", "u", "v", "w", "x", "y", "z">>

UpperLetters ==
    <<"A", "B", "C", "D", "E", "F", "G", "H", "I", "J", "K", "L", "M",
      "N", "O", "P", "Q", "R", "S", "T", "U", "V", "W", "X", "Y", "Z">>

Digits == {"0", "1", "2", "3", "4", "5", "6", "7", "8", "9"}

Range(s) == { s[i] : i \in DOMAIN s }

\* [a-zA-Z0-9]
IsAlnum(c) == c \in Range(LowerLetters) \cup Range(UpperLetters) \cup Digits

\* Case folding done by re.IGNORECASE on ASCII text.
ToLower(c) ==
    IF c \in Range(UpperLetters)
    THEN LowerLetters[CHOOSE i \in DOMAIN UpperLetters : UpperLetters[i] = c]
    ELSE c

\* Whitespace recognised by str.split().
IsSpace(c) == c \in {" ", "\t", "\n", "\r"}

\* The characters of the class [\t\r\n\x8f]; "x8f" stands for chr(0x8f).
TitleControlChars == {"\t", "\r", "\n", "x8f"}

\* The sentinel "-" of the source, as a character sequence.
Sentinel == <<"-">>

----------------------------------------------------------------------------
\* Regular-expression and string primitives

\* re.sub(r'[^a-zA-Z0-9]', repl, s)
RECURSIVE re_sub_non_alnum(_, _)
re_sub_non_alnum(repl, s) ==
    IF s = <<>> THEN <<>>
    ELSE (IF IsAlnum(Head(s)) THEN <<Head(s)>> ELSE repl)
         \o re_sub_non_alnum(repl, Tail(s))

\* str.split(): the maximal runs of non-whitespace characters, in order.
RECURSIVE split_runs(_, _, _)
split_runs(s, cur, acc) ==
    IF s = <<>>
    THEN (IF cur = <<>> THEN acc ELSE Append(acc, cur))
    ELSE IF IsSpace(Head(s))
         THEN split_runs(Tail(s), <<>>,
                         IF cur = <<>> THEN acc ELSE Append(acc, cur))
         ELSE split_runs(Tail(s), Append(cur, Head(s)), acc)

split(s) == split_runs(s, <<>>, <<>>)

\* ''.join(words)
RECURSIVE join(_)
join(words) ==
    IF words = <<>> THEN <<>> ELSE Head(words) \o join(Tail(words))

\* The literal pattern pat matches s at offset k (0-based), ignoring case.
literal_at(pat, s, k) ==
    /\ k + Len(pat) <= Len(s)
    /\ \A i \in 1..Len(pat) : ToLower(pat[i]) = ToLower(s[k + i])

\* re.match(r'^' + pat, s, re.IGNORECASE) for an alphanumeric pat.
re_match(pat, s) == literal_at(pat, s, 0)

\* re.search(pat, s, re.IGNORECASE) for an alphanumeric pat.
re_search(pat, s) == \E k \in 0..Len(s) : literal_at(pat, s, k)

\* words[:2]
first_two(words) ==
    SubSeq(words, 1, IF Len(words) < 2 THEN Len(words) ELSE 2)

----------------------------------------------------------------------------
\* exclude_unwanted_domains

\* The alternatives of exclude_domains_pattern, in source order.
exclude_markers ==
    << <<"l", "i", "n", "k", "e", "d", "i", "n", ".", "c", "o", "m">>,
       <<"t", "w", "i", "t", "t", "e", "r">>,
       <<"o", "w", "l", "e", "r">>,
       <<"y", "o", "u", "t", "u", "b", "e">>,
       <<"m", "a", "n", "t", "a", ".", "c", "o", "m">>,
       <<"c", "b", "i", "n", "s", "i", "g", "h", "t", "s", ".", "c", "o", "m">>,
       <<"o", "p", "e", "n", "s", "e", "c", "r", "e", "t", "s", ".", "o", "r", "g">>,
       <<"p", "i", "t", "c", "h", "b", "o", "o", "k", ".", "c", "o", "m">>,
       <<"b", "u", "z", "z", "f", "i", "l", "e", ".", "c", "o", "m">>,
       <<"m", "a", "s", "s", "i", "n", "v", "e", "s", "t", "o", "r", "d", "a", "t", "a", "b", "a", "s", "e", ".", "c", "o", "m">>,
       <<"b", "c", "i", "q", ".", "b", "i", "o", "c", "e", "n", "t", "u", "r", "y", ".", "c", "o", "m">>,
       <<"f", "a", "c", "e", "b", "o", "o", "k">>,
       <<"f", "i", "n", "a", "n", "c", "e", ".", "y", "a", "h", "o", "o", ".", "c", "o", "m">>,
       <<"w", "i", "k", "i", "p", "e", "d", "i", "a">>,
       <<"g", "o", "o", "g", "l", "e">>,
       <<"b", "l", "o", "o", "m", "b", "e", "r", "g", ".", "c", "o", "m">>,
       <<"m", "a", "r", "k", "e", "t", "w", "a", "t", "c", "h", ".", "c", "o", "m">>,
       <<"f", "t", ".", "c", "o", "m">>,
       <<"c", "n", "n", ".", "c", "o", "m">>,
       <<"w", "s", "j", ".", "c", "o", "m">>,
       <<"e", "c", "o", "n", "o", "m", "i", "s", "t", ".", "c", "o", "m">>,
       <<"c", "r", "u", "n", "c", "h", "b", "a", "s", "e", ".", "c", "o", "m">>,
       <<"x", "i", "n", "g">>,
       <<"g", "l", "a", "s", "s", "d", "o", "o", "r">>,
       <<"j", "o", "b", "s">>,
       <<"w", "o", "r", "k", "a", "b", "l", "e", ".", "c", "o", "m">>,
       <<"g", "i", "t", "h", "u", "b", ".", "c", "o", "m">> >>

\* One alternative of the pattern matches s at offset k (0-based); a "."
\* of the alternative matches any character but a newline.
marker_at(m, s, k) ==
    /\ k + Len(m) <= Len(s)
    /\ \A i \in 1..Len(m) :
          IF m[i] = "." THEN s[k + i] # "\n"
          ELSE ToLower(m[i]) = ToLower(s[k + i])

\* exclude_domains_pattern.match(url): ".*" consumes any k characters that
\* are not newlines, then one alternative has to match at offset k.
exclude_domains_pattern_match(url) ==
    \E k \in 0..Len(url) :
        /\ \A j \in 1..k : url[j] # "\n"
        /\ \E n \in DOMAIN exclude_markers : marker_at(exclude_markers[n], url, k)

exclude_unwanted_domains(urls) ==
    SelectSeq(urls, LAMBDA url : ~exclude_domains_pattern_match(url))

----------------------------------------------------------------------------
\* extract_domains

\* Public suffixes known to the domain parser, within the URLs considered.
KnownSuffixes == { <<"c", "o", "m">>, <<"i", "o">> }

\* First 0-based offset at which sub occurs in s, or -1.
find(sub, s) ==
    LET hits == { k \in 0..Len(s) :
                    /\ k + Len(sub) <= Len(s)
                    /\ \A i \in 1..Len(sub) : sub[i] = s[k + i] }
    IN  IF hits = {} THEN -1
        ELSE CHOOSE k \in hits : \A h \in hits : k <= h

\* Number of leading characters of the URL that make up scheme and host;
\* 0 when the URL has no scheme.
scheme_host_len(url) ==
    LET p == find(<<":", "/", "/">>, url)
        ends == { k \in (p + 4)..Len(url) : url[k] \in {"/", "?", "#"} }
    IN  IF p < 0 THEN 0
        ELSE IF ends = {} THEN Len(url)
        ELSE (CHOOSE k \in ends : \A h \in ends : k <= h) - 1

\* The host of the URL, <<>> when the URL has no scheme.
host_of(url) ==
    LET p == find(<<":", "/", "/">>, url)
    IN  IF p < 0 THEN <<>> ELSE SubSeq(url, p + 4, scheme_host_len(url))

\* host.split('.')
RECURSIVE split_labels(_, _, _)
split_labels(s, cur, acc) ==
    IF s = <<>> THEN Append(acc, cur)
    ELSE IF Head(s) = "."
         THEN split_labels(Tail(s), <<>>, Append(acc, cur))
         ELSE split_labels(Tail(s), Append(cur, Head(s)), acc)

\* get_tld(url, as_object=True): fails on a URL without scheme and on a
\* host that does not end in a known public suffix; otherwise .domain is
\* the label in front of the suffix.
get_tld(url) ==
    LET labels == split_labels(host_of(url), <<>>, <<>>)
        n == Len(labels)
    IN  IF host_of(url) # <<>> /\ n >= 2 /\ labels[n] \in KnownSuffixes
                               /\ labels[n - 1] # <<>>
        THEN [ok |-> TRUE, domain |-> labels[n - 1]]
        ELSE [ok |-> FALSE, domain |-> <<>>]

RECURSIVE extract_domains(_)
extract_domains(urls) ==
    IF urls = <<>> THEN <<>>
    ELSE LET tld_info == get_tld(Head(urls))
         IN  (IF tld_info.ok
              THEN << re_sub_non_alnum(<<>>, tld_info.domain) >>
              ELSE <<>>)
             \o extract_domains(Tail(urls))

----------------------------------------------------------------------------
\* find_best_match

exact_matches(domains, query_cleaned) ==
    SelectSeq(domains, LAMBDA domain : re_match(join(query_cleaned), domain))

semi_matches(domains, query_cleaned) ==
    SelectSeq(domains,
              LAMBDA domain : re_match(join(first_two(query_cleaned)), domain))

\* Evaluated only when query_cleaned is not empty.
letter_matches(domains, query_cleaned) ==
    SelectSeq(domains, LAMBDA domain : re_match(query_cleaned[1], domain))

\* The result of a call: a returned pair (value, label) or a raised exception.
Returned(value, label) ==
    [kind |-> "return", value |-> value, label |-> label, exc |-> ""]

Raised(exc) ==
    [kind |-> "raise", value |-> <<>>, label |-> "", exc |-> exc]

\* Variant: the semi rule is tried before the exact rule.
find_best_match_semi_first(domains, query_cleaned) ==
    IF query_cleaned = <<>> /\ domains # <<>> THEN Raised("IndexError")
    ELSE IF semi_matches(domains, query_cleaned) # <<>>
         THEN Returned(semi_matches(domains, query_cleaned)[1], "semi match")
    ELSE IF exact_matches(domains, query_cleaned) # <<>>
         THEN Returned(exact_matches(domains, query_cleaned)[1], "exact match")
    ELSE IF query_cleaned # <<>> /\ letter_matches(domains, query_cleaned) # <<>>
         THEN Returned(letter_matches(domains, query_cleaned)[1], "letter match")
    ELSE Returned(Sentinel, "no result")

\* Variant: the last match of a tier is taken instead of the first.
find_best_match_last(domains, query_cleaned) ==
    LET last(s) == s[Len(s)]
    IN  IF query_cleaned = <<>> /\ domains # <<>> THEN Raised("IndexError")
        ELSE IF exact_matches(domains, query_cleaned) # <<>>
             THEN Returned(last(exact_matches(domains, query_cleaned)),
                           "exact match")
        ELSE IF semi_matches(domains, query_cleaned) # <<>>
             THEN Returned(last(semi_matches(domains, query_cleaned)),
                           "semi match")
        ELSE IF query_cleaned # <<>>
                /\ letter_matches(domains, query_cleaned) # <<>>
             THEN Returned(last(letter_matches(domains, query_cleaned)),
                           "letter match")
        ELSE Returned(Sentinel, "no result")

\* Variant: the failure branch returns an empty string instead of "-".
find_best_match_no_sentinel(domains, query_cleaned) ==
    IF query_cleaned = <<>> /\ domains # <<>> THEN Raised("IndexError")
    ELSE IF exact_matches(domains, query_cleaned) # <<>>
         THEN Returned(exact_matches(domains, query_cleaned)[1], "exact match")
    ELSE IF semi_matches(domains, query_cleaned) # <<>>
         THEN Returned(semi_matches(domains, query_cleaned)[1], "semi match")
    ELSE IF query_cleaned # <<>> /\ letter_matches(domains, query_cleaned) # <<>>
         THEN Returned(letter_matches(domains, query_cleaned)[1], "letter match")
    ELSE Returned(<<>>, "no result")

\* query_cleaned[0] in the third comprehension is evaluated once per domain,
\* so it raises IndexError exactly when the token list is empty and the
\* domain list is not.
find_best_match(domains, query_cleaned) ==
    IF query_cleaned = <<>> /\ domains # <<>> THEN Raised("IndexError")
    ELSE IF exact_matches(domains, query_cleaned) # <<>>
         THEN Returned(exact_matches(domains, query_cleaned)[1], "exact match")
    ELSE IF semi_matches(domains, query_cleaned) # <<>>
         THEN Returned(semi_matches(domains, query_cleaned)[1], "semi match")
    ELSE IF query_cleaned # <<>> /\ letter_matches(domains, query_cleaned) # <<>>
         THEN Returned(letter_matches(domains, query_cleaned)[1], "letter match")
    ELSE Returned(Sentinel, "no result")

----------------------------------------------------------------------------
\* validate_html_title

\* re.sub(r'[\t\r\n\x8f]', '', html_title)
html_title_cleaned(html_title) ==
    SelectSeq(html_title, LAMBDA c : c \notin TitleControlChars)

\* Variant: only the request is guarded; reading .string of a missing title
\* raises AttributeError, re.sub on a missing string raises TypeError.
validate_html_title_uncaught(url, query_cleaned, page) ==
    IF page.kind = "request_error" THEN Returned(url, "check")
    ELSE IF page.kind = "no_title" THEN Raised("AttributeError")
    ELSE IF page.kind = "no_string" THEN Raised("TypeError")
    ELSE IF query_cleaned = <<>> THEN Raised("IndexError")
    ELSE IF re_search(query_cleaned[1], html_title_cleaned(page.title))
         THEN Returned(url, "fine")
    ELSE Returned(url, "check")

\* page is what requests.get / BeautifulSoup produce for the URL:
\*   "request_error"  requests.get raises
\*   "no_title"       the document has no title element (.title is None)
\*   "no_string"      the title element has no single string (.string is None)
\*   "title"          the title text is page.title
validate_html_title(url, query_cleaned, page) ==
    IF page.kind # "title" THEN Returned(url, "check")
    ELSE IF query_cleaned = <<>> THEN Raised("IndexError")
    ELSE IF re_search(query_cleaned[1], html_title_cleaned(page.title))
         THEN Returned(url, "fine")
    ELSE Returned(url, "check")

----------------------------------------------------------------------------
\* clean_query, google_search

clean_query(query) == split(re_sub_non_alnum(<<" ">>, query))

\* provider is the behaviour of googlesearch.search during the call: the
\* URLs it yields, then how the iteration ends ("none": exhausted normally,
\* "HTTPError", or "URLError" for any exception that is not an HTTPError).
google_search(provider) ==
    IF provider.failure \in {"none", "HTTPError"}
    THEN [kind |-> "return", results |-> provider.yielded, exc |-> ""]
    ELSE [kind |-> "raise", results |-> <<>>, exc |-> provider.failure]

----------------------------------------------------------------------------
\* Inputs of the environment

\* URLs the search provider may yield.
\* "https://acmecorp.io/x"
U1 ==
    <<"h", "t", "t", "p", "s", ":", "/", "/", "a", "c", "m", "e", "c", "o", "r", "p", ".", "i", "o", "/", "x">>

\* "https://linkedin.com/acmecorp"
U2 ==
    <<"h", "t", "t", "p", "s", ":", "/", "/", "l", "i", "n", "k", "e", "d", "i", "n", ".", "c", "o", "m", "/", "a", "c", "m", "e", "c", "o", "r", "p">>

\* "https://acme-something.com"
U3 ==
    <<"h", "t", "t", "p", "s", ":", "/", "/", "a", "c", "m", "e", "-", "s", "o", "m", "e", "t", "h", "i", "n", "g", ".", "c", "o", "m">>

\* "https://acme.com/jobs"
U4 ==
    <<"h", "t", "t", "p", "s", ":", "/", "/", "a", "c", "m", "e", ".", "c", "o", "m", "/", "j", "o", "b", "s">>

\* "http://localhost/acme"
U5 ==
    <<"h", "t", "t", "p", ":", "/", "/", "l", "o", "c", "a", "l", "h", "o", "s", "t", "/", "a", "c", "m", "e">>

\* "https://other.com/"
U6 ==
    <<"h", "t", "t", "p", "s", ":", "/", "/", "o", "t", "h", "e", "r", ".", "c", "o", "m", "/">>

\* "https://www.acme.com/"
U7 ==
    <<"h", "t", "t", "p", "s", ":", "/", "/", "w", "w", "w", ".", "a", "c", "m", "e", ".", "c", "o", "m", "/">>

\* "https://acmecorpinc.com"
U8 ==
    <<"h", "t", "t", "p", "s", ":", "/", "/", "a", "c", "m", "e", "c", "o", "r", "p", "i", "n", "c", ".", "c", "o", "m">>

Urls == {U1, U2, U3, U4, U5, U6, U7, U8}

\* Raw queries given to find_url.
\* 'Acme Corp'
Q1 == <<"A", "c", "m", "e", " ", "C", "o", "r", "p">>

\* 'acme'
Q2 == <<"a", "c", "m", "e">>

\* 'ACME corp Inc'
Q3 == <<"A", "C", "M", "E", " ", "c", "o", "r", "p", " ", "I", "n", "c">>

\* ''
Q4 == <<>>

\* '& !'
Q5 == <<"&", " ", "!">>

\* 'Zeta'
Q6 == <<"Z", "e", "t", "a">>

Queries == {Q1, Q2, Q3, Q4, Q5, Q6}

\* Title texts of fetched pages.
\* 'Acme Corp - Home'
T1 == <<"A", "c", "m", "e", " ", "C", "o", "r", "p", " ", "-", " ", "H", "o", "m", "e">>

\* 'Welcome\n'
T2 == <<"W", "e", "l", "c", "o", "m", "e", "\n">>

\* 'the\tAC\nME story'
T3 == <<"t", "h", "e", "\t", "A", "C", "\n", "M", "E", " ", "s", "t", "o", "r", "y">>

\* ''
T4 == <<>>

Titles == {T1, T2, T3, T4}

\* Outcomes of fetching a page and reading its title.
Pages ==
    { [kind |-> k, title |-> <<>>] :
          k \in {"request_error", "no_title", "no_string"} }
    \cup { [kind |-> "title", title |-> t] : t \in Titles }

\* Sequences of at most n elements of S.
SeqsUpTo(S, n) == UNION { [1..k -> S] : k \in 0..n }

\* Behaviours of the search provider during one call.
Providers ==
    [yielded : SeqsUpTo(Urls, MaxResults),
     failure : {"none", "HTTPError", "URLError"}]

----------------------------------------------------------------------------
\* find_url as a state machine

VARIABLES
    pc,                \* stage find_url is about to run, or "done"
    query,             \* the argument of find_url
    query_cleaned,
    provider,          \* what the search provider did during the call
    search_results,
    filtered_results,
    domains,
    best_domain,
    match_type,
    best_url,
    page,              \* what the page fetch produced
    calls,             \* the functions find_url has invoked, in order
    result             \* what find_url returned or raised

vars == <<pc, query, query_cleaned, provider, search_results,
          filtered_results, domains, best_domain, match_type, best_url,
          page, calls, result>>

Pending == [kind |-> "pending", value |-> <<>>, label |-> "", exc |-> ""]

NoProvider == [yielded |-> <<>>, failure |-> "none"]

NoPage == [kind |-> "none", title |-> <<>>]

Init ==
    /\ pc = "normalize"
    /\ query \in Queries
    /\ query_cleaned = <<>>
    /\ provider = NoProvider
    /\ search_results = <<>>
    /\ filtered_results = <<>>
    /\ domains = <<>>
    /\ best_domain = <<>>
    /\ match_type = ""
    /\ best_url = <<>>
    /\ page = NoPage
    /\ calls = <<>>
    /\ result = Pending

\* list.index(x): 1-based position of the first element equal to x; 0 when
\* x is not in the list (the source raises ValueError there).
index(list, x) ==
    IF x \in Range(list)
    THEN CHOOSE i \in DOMAIN list :
             list[i] = x /\ \A j \in DOMAIN list : list[j] = x => i <= j
    ELSE 0

\* Step 1: query_cleaned = clean_query(query)
Normalize ==
    /\ pc = "normalize"
    /\ query_cleaned' = clean_query(query)
    /\ calls' = Append(calls, "clean_query")
    /\ pc' = "search"
    /\ UNCHANGED <<query, provider, search_results, filtered_results, domains,
                   best_domain, match_type, best_url, page, result>>

\* Step 2: search_results = google_search(...); if not search_results: return
Search ==
    /\ pc = "search"
    /\ \E p \in Providers :
        LET r == google_search(p)
        IN  /\ provider' = p
            /\ search_results' = r.results
            /\ IF r.kind = "raise"
               THEN result' = Raised(r.exc) /\ pc' = "done"
               ELSE IF r.results = <<>>
               THEN result' = Returned(Sentinel, "no result") /\ pc' = "done"
               ELSE result' = result /\ pc' = "filter"
    /\ calls' = Append(calls, "google_search")
    /\ UNCHANGED <<query, query_cleaned, filtered_results, domains,
                   best_domain, match_type, best_url, page>>

\* Step 3: filtered_results = exclude_unwanted_domains(search_results)
Filter ==
    /\ pc = "filter"
    /\ filtered_results' = exclude_unwanted_domains(search_results)
    /\ calls' = Append(calls, "exclude_unwanted_domains")
    /\ pc' = "extract"
    /\ UNCHANGED <<query, query_cleaned, provider, search_results, domains,
                   best_domain, match_type, best_url, page, result>>

\* Step 4: domains = extract_domains(filtered_results)
Extract ==
    /\ pc = "extract"
    /\ domains' = extract_domains(filtered_results)
    /\ calls' = Append(calls, "extract_domains")
    /\ pc' = "match"
    /\ UNCHANGED <<query, query_cleaned, provider, search_results,
                   filtered_results, best_domain, match_type, best_url,
                   page, result>>

\* Variant: filtered_results[domains.index(best_domain) + 1]
best_url_lookup_off_by_one(urls, doms, best) ==
    IF index(doms, best) = 0 THEN Raised("ValueError")
    ELSE IF index(doms, best) + 1 > Len(urls) THEN Raised("IndexError")
    ELSE Returned(urls[index(doms, best) + 1], "")

\* filtered_results[domains.index(best_domain)]: ValueError when best_domain
\* is not in domains, IndexError when the position lies beyond the URL list.
best_url_lookup(urls, doms, best) ==
    IF index(doms, best) = 0 THEN Raised("ValueError")
    ELSE IF index(doms, best) > Len(urls) THEN Raised("IndexError")
    ELSE Returned(urls[index(doms, best)], "")

\* Step 5: best_domain, match_type = find_best_match(domains, query_cleaned);
\* if best_domain == "-": return; then
\* best_url = filtered_results[domains.index(best_domain)]
Match ==
    /\ pc = "match"
    /\ calls' = Append(calls, "find_best_match")
    /\ LET m == find_best_match(domains, query_cleaned)
           u == best_url_lookup(filtered_results, domains, m.value)
       IN  IF m.kind = "raise"
           THEN /\ result' = Raised(m.exc)
                /\ pc' = "done"
                /\ UNCHANGED <<best_domain, match_type, best_url>>
           ELSE /\ best_domain' = m.value
                /\ match_type' = m.label
                /\ IF m.value = Sentinel
                   THEN /\ result' = Returned(Sentinel, "no result")
                        /\ pc' = "done"
                        /\ UNCHANGED best_url
                   ELSE IF u.kind = "raise"
                   THEN /\ result' = Raised(u.exc)
                        /\ pc' = "done"
                        /\ UNCHANGED best_url
                   ELSE /\ best_url' = u.value
                        /\ pc' = "validate"
                        /\ UNCHANGED result
    /\ UNCHANGED <<query, query_cleaned, provider, search_results,
                   filtered_results, domains, page>>

\* Variant: find_url returns (best_url, match_type) after the validation.
Validate_returns_match_type ==
    /\ pc = "validate"
    /\ \E pg \in Pages :
        /\ page' = pg
        /\ result' =
             IF validate_html_title(best_url, query_cleaned, pg).kind = "raise"
             THEN validate_html_title(best_url, query_cleaned, pg)
             ELSE Returned(best_url, match_type)
    /\ calls' = Append(calls, "validate_html_title")
    /\ pc' = "done"
    /\ UNCHANGED <<query, query_cleaned, provider, search_results,
                   filtered_results, domains, best_domain, match_type,
                   best_url>>

\* Step 6: return validate_html_title(best_url, query_cleaned)
Validate ==
    /\ pc = "validate"
    /\ \E pg \in Pages :
        /\ page' = pg
        /\ result' = validate_html_title(best_url, query_cleaned, pg)
    /\ calls' = Append(calls, "validate_html_title")
    /\ pc' = "done"
    /\ UNCHANGED <<query, query_cleaned, provider, search_results,
                   filtered_results, domains, best_domain, match_type,
                   best_url>>

Next ==
    \/ Normalize
    \/ Search
    \/ Filter
    \/ Extract
    \/ Match
    \/ Validate

Spec == Init /\ [][Next]_vars

----------------------------------------------------------------------------
\* Properties

Invoked(f) == f \in Range(calls)

NoResult == Returned(Sentinel, "no result")

\* d begins with p, compared without regard to case.
StartsWith(d, p) ==
    /\ Len(p) <= Len(d)
    /\ \A i \in 1..Len(p) : ToLower(d[i]) = ToLower(p[i])

\* The three rules of the matcher, for the tokens of the current call.
ExactRule(d) == StartsWith(d, join(query_cleaned))

SemiRule(d) ==
    StartsWith(d, IF Len(query_cleaned) >= 2
                  THEN query_cleaned[1] \o query_cleaned[2]
                  ELSE join(query_cleaned))

LetterRule(d) == StartsWith(d, query_cleaned[1])

\* The rule that goes with a tier label.
TierRule(label, d) ==
    IF label = "exact match" THEN ExactRule(d)
    ELSE IF label = "semi match" THEN SemiRule(d)
    ELSE LetterRule(d)

\* The matcher has returned for a non-empty token sequence.
Matched == match_type # "" /\ query_cleaned # <<>>

\* The domain label the extractor derives from a URL it can parse.
DomainOf(url) == re_sub_non_alnum(<<>>, get_tld(url).domain)

\* C1: after extraction the i-th domain comes from the i-th filtered URL, and
\* the URL handed to validation is the one the winning domain was taken from.
C1_IndexAligned ==
    /\ Invoked("extract_domains") =>
          \A i \in DOMAIN domains :
              /\ get_tld(filtered_results[i]).ok
              /\ domains[i] = DomainOf(filtered_results[i])
    /\ best_url # <<>> =>
          /\ get_tld(best_url).ok
          /\ DomainOf(best_url) = best_domain

\* C2: for a query without alphanumeric character, whatever list the search
\* provider returns, find_url ends by returning ("-", "no result").
C2_EmptyQueryNoResult ==
    (pc = "done" /\ clean_query(query) = <<>> /\ provider.failure = "none")
        => result = NoResult

\* C3: with non-empty tokens, an exact candidate forces the label "exact
\* match"; "letter match" is returned only when no domain satisfies the exact
\* or the semi rule; "no result" only when no domain satisfies any rule.
C3_TierPriority ==
    Matched =>
        /\ (\E i \in DOMAIN domains : ExactRule(domains[i]))
              => match_type = "exact match"
        /\ match_type = "letter match"
              => \A i \in DOMAIN domains :
                     ~ExactRule(domains[i]) /\ ~SemiRule(domains[i])
        /\ match_type = "no result"
              => \A i \in DOMAIN domains :
                     /\ ~ExactRule(domains[i])
                     /\ ~SemiRule(domains[i])
                     /\ ~LetterRule(domains[i])

\* An exact candidate stands behind a domain that satisfies only the letter
\* rule, and the matcher has answered "exact match".
C3_Witness ==
    /\ Matched
    /\ match_type = "exact match"
    /\ Len(domains) >= 2
    /\ LetterRule(domains[1]) /\ ~SemiRule(domains[1])
    /\ ExactRule(domains[2])

\* C4: with non-empty tokens, the returned domain is the lowest-index domain
\* that satisfies the strictest tier satisfied by any domain of the list.
C4_FirstOfStrictestTier ==
    (Matched /\ match_type # "no result") =>
        /\ match_type \in {"exact match", "semi match", "letter match"}
        /\ \E i \in DOMAIN domains :
              /\ domains[i] = best_domain
              /\ TierRule(match_type, domains[i])
              /\ \A j \in 1..(i - 1) : ~TierRule(match_type, domains[j])
        /\ match_type # "exact match"
              => \A i \in DOMAIN domains : ~ExactRule(domains[i])
        /\ match_type = "letter match"
              => \A i \in DOMAIN domains : ~SemiRule(domains[i])

\* Two different domains satisfy the winning tier and the first one is
\* returned.
C4_Witness ==
    /\ Matched
    /\ Len(domains) >= 2
    /\ match_type \in {"exact match", "semi match", "letter match"}
    /\ TierRule(match_type, domains[1])
    /\ TierRule(match_type, domains[2])
    /\ domains[1] # domains[2]
    /\ best_domain = domains[1]

\* The blocklist filter has emptied a non-empty search result.
FilteredToNothing ==
    /\ search_results # <<>>
    /\ Invoked("exclude_unwanted_domains")
    /\ filtered_results = <<>>

\* C5 as stated: when the filter removes every URL the pipeline returns
\* ("-", "no result") and neither extraction nor matching is invoked.
C5_NoStageAfterEmptyFilter ==
    FilteredToNothing =>
        /\ ~Invoked("extract_domains")
        /\ ~Invoked("find_best_match")
        /\ pc = "done" => result = NoResult

\* C5 amended: when the filter removes every URL the pipeline returns
\* ("-", "no result"); extraction and matching are invoked on the empty list
\* and validation is not invoked.
C5_EmptyFilterNoResult ==
    (FilteredToNothing /\ pc = "done") =>
        /\ result = NoResult
        /\ domains = <<>>
        /\ calls = <<"clean_query", "google_search",
                     "exclude_unwanted_domains", "extract_domains",
                     "find_best_match">>

C5_Witness ==
    /\ FilteredToNothing
    /\ pc = "done"
    /\ result = NoResult
    /\ Invoked("find_best_match")

\* C6: when the page fetch or the title extraction fails for the winning URL,
\* find_url returns (winning URL, "check"); nothing is raised and the URL is
\* not replaced by the sentinel.
C6_FetchFailureIsCheck ==
    (Invoked("validate_html_title")
        /\ page.kind \in {"request_error", "no_title", "no_string"})
        => /\ result = Returned(best_url, "check")
           /\ best_url # Sentinel

C6_Witness ==
    /\ Invoked("validate_html_title")
    /\ page.kind = "no_title"
    /\ result.kind = "return"
    /\ result.value = best_url
    /\ result.label = "check"

\* A blocklist alternative occurs inside the scheme-and-host part of the URL.
MarkerInSchemeHost(url) ==
    exclude_domains_pattern_match(SubSeq(url, 1, scheme_host_len(url)))

\* C7: the filter removes a URL exactly when a blocklist marker occurs in its
\* scheme and host; a marker in the path or query string does not remove it.
C7_HostOnly ==
    Invoked("exclude_unwanted_domains") =>
        \A i \in DOMAIN search_results :
            (search_results[i] \notin Range(filtered_results))
                <=> MarkerInSchemeHost(search_results[i])

\* C8: every return of find_url has a status among "fine", "check" and
\* "no result"; the result is "-" exactly when the status is "no result", and
\* the status is "fine" or "check" exactly when validation was reached.
C8_ReturnShape ==
    (pc = "done" /\ result.kind = "return") =>
        /\ result.label \in {"fine", "check", "no result"}
        /\ (result.value = Sentinel) <=> (result.label = "no result")
        /\ (result.label \in {"fine", "check"})
              <=> Invoked("validate_html_title")

\* A letter-tier winner has been validated and returned as "fine".
C8_Witness ==
    /\ pc = "done"
    /\ result.kind = "return"
    /\ match_type = "letter match"
    /\ result.label = "fine"
    /\ result.value = best_url

\* C9: when the search provider fails, at any point and in any way,
\* google_search returns an empty list without raising, and find_url returns
\* ("-", "no result") without running any later stage.
C9_ProviderFailureIsEmpty ==
    (Invoked("google_search") /\ provider.failure # "none") =>
        /\ search_results = <<>>
        /\ result = NoResult
        /\ calls = <<"clean_query", "google_search">>

\* C10: with non-empty tokens, a returned URL other than "-" is an element of
\* the filtered list and is not matched by the blocklist; the lookup
\* filtered_results[domains.index(best_domain)] does not raise.
C10_ResultFromFilteredList ==
    (query_cleaned # <<>> /\ Invoked("find_best_match")) =>
        /\ (match_type # "" /\ best_domain # Sentinel) =>
              /\ best_domain \in Range(domains)
              /\ index(domains, best_domain) <= Len(filtered_results)
        /\ result.kind # "raise"
        /\ (result.kind = "return" /\ result.value # Sentinel) =>
              /\ result.value \in Range(filtered_results)
              /\ ~exclude_domains_pattern_match(result.value)

\* The search result held a blocked URL in front of the winner, and a URL of
\* the filtered list is returned.
C10_Witness ==
    /\ pc = "done"
    /\ query_cleaned # <<>>
    /\ result.kind = "return"
    /\ result.value # Sentinel
    /\ result.value \in Range(filtered_results)
    /\ Len(filtered_results) < Len(search_results)
    /\ exclude_domains_pattern_match(search_results[1])

====
